---- MODULE Spec2Model ----
(***************************************************************************)
(* Rydberg avalanche detector: Hamiltonian builder, state preparation,     *)
(* time-evolution engine and observable extractor of the three variants    *)
(* (pure NumPy, QuTiP, QuTiP with magnetic field).                         *)
(*                                                                         *)
(* Arithmetic is exact.  A complex number is a pair <<re, im>> of          *)
(* integers.  A matrix is a function [0..r-1 -> [0..c-1 -> complex]]; a    *)
(* 1-D array of the code is a matrix with one column.  A state vector is   *)
(* a record [amp, den] standing for amp / sqrt(den).  Coefficients are     *)
(* integers; one time unit is a quarter period, so that exp(-i*d*t) for    *)
(* integer d and t is (-i)^(d*t).                                          *)
(***************************************************************************)
EXTENDS Integers, Sequences, FiniteSets, TLC

VARIABLES pc, variant, run, N, params, H, kind, k, psi0, times, idx, states,
          n_r_operators, S_spatiotemporal, S_total

vars == <<pc, variant, run, N, params, H, kind, k, psi0, times, idx, states,
          n_r_operators, S_spatiotemporal, S_total>>

(* ---- bounds ---------------------------------------------------------- *)
(* chain lengths given to the Hamiltonian builders and to the drivers *)
MaxN == 3
(* chain lengths on which compute_signal_evolution is run *)
MaxChain == 2
MaxCoeff == 1
MaxLen == 2
MaxTime == 2
MaxFactor == 2
MaxPoints == 3
MaxField == 25
MaxTemperature == 3

Variants == {"numpy", "qutip", "magnetic"}
Sizes == 1..MaxN
Chains == 1..MaxChain
Coeffs == (0 - 1)..MaxCoeff
(* an optional argument: <<>> when omitted, <<v>> when given *)
None == <<>>
Given(v) == <<v>>

(* ---- complex numbers -------------------------------------------------- *)
CZero == <<0, 0>>
COne == <<1, 0>>
CAdd(a, b) == <<a[1] + b[1], a[2] + b[2]>>
CMul(a, b) == <<a[1] * b[1] - a[2] * b[2], a[1] * b[2] + a[2] * b[1]>>
CConj(a) == <<a[1], 0 - a[2]>>
CScale(c, a) == <<c * a[1], c * a[2]>>
CAbs2(a) == a[1] * a[1] + a[2] * a[2]

RECURSIVE Pow2(_)
Pow2(n) == IF n <= 0 THEN 1 ELSE 2 * Pow2(n - 1)

(* ---- matrices --------------------------------------------------------- *)
Rows(M) == Cardinality(DOMAIN M)
Cols(M) == Cardinality(DOMAIN M[0])

zeros(r, c) == [i \in 0..(r - 1) |-> [j \in 0..(c - 1) |-> CZero]]

MAdd(A, B) == [i \in DOMAIN A |-> [j \in DOMAIN A[i] |-> CAdd(A[i][j], B[i][j])]]

MScale(c, A) == [i \in DOMAIN A |-> [j \in DOMAIN A[i] |-> CScale(c, A[i][j])]]

Dagger(A) == [i \in 0..(Cols(A) - 1) |-> [j \in 0..(Rows(A) - 1) |-> CConj(A[j][i])]]

RECURSIVE DotFrom(_, _, _, _, _, _)
DotFrom(A, B, i, j, l, n) ==
    IF l >= n THEN CZero
    ELSE CAdd(CMul(A[i][l], B[l][j]), DotFrom(A, B, i, j, l + 1, n))

MatMul(A, B) ==
    LET n == Cols(A)
        r == Rows(A)
        c == Cols(B)
    IN  [i \in 0..(r - 1) |-> [j \in 0..(c - 1) |-> DotFrom(A, B, i, j, 0, n)]]

kron(A, B) ==
    LET rB == Rows(B)
        cB == Cols(B)
    IN  [i \in 0..(Rows(A) * rB - 1) |->
            [j \in 0..(Cols(A) * cB - 1) |->
                CMul(A[i \div rB][j \div cB], B[i % rB][j % cB])]]

(* ---- operator algebra (NumPy variant) --------------------------------- *)
basis_state(dim, n) == [i \in 0..(dim - 1) |-> [j \in {0} |-> IF i = n THEN COne ELSE CZero]]

(* each further operator multiplied in from the left *)
RECURSIVE tensor_fold_reversed(_, _, _)
tensor_fold_reversed(result, operators, i) ==
    IF i > Len(operators) THEN result
    ELSE tensor_fold_reversed(kron(operators[i], result), operators, i + 1)

RECURSIVE tensor_fold(_, _, _)
tensor_fold(result, operators, i) ==
    IF i > Len(operators) THEN result
    ELSE tensor_fold(kron(result, operators[i]), operators, i + 1)

tensor_product(operators) == tensor_fold(operators[1], operators, 2)

Mat2(a, b, c, d) == [i \in 0..1 |-> [j \in 0..1 |->
    IF i = 0 THEN (IF j = 0 THEN a ELSE b) ELSE (IF j = 0 THEN c ELSE d)]]

sigma_plus == Mat2(CZero, CZero, COne, CZero)
sigma_minus == Mat2(CZero, COne, CZero, CZero)
(* the projector on the ground state |g><g| *)
number_operator_ground == Mat2(COne, CZero, CZero, CZero)

number_operator == Mat2(CZero, CZero, CZero, COne)
Id == Mat2(COne, CZero, CZero, COne)

(* op_list = [Id] * N; op_list[j] = op  (Python list indexing: a negative *)
(* index counts from the end)                                             *)
PyIndex(j, n) == IF j < 0 THEN j + n ELSE j
op_list_site(n, j, op) == [i \in 1..n |-> IF i = PyIndex(j, n) + 1 THEN op ELSE Id]
op_list_pair(n, j, op) ==
    [i \in 1..n |-> IF i = PyIndex(j, n) + 1 \/ i = PyIndex(j + 1, n) + 1 THEN op ELSE Id]

(* ---- Hamiltonian builder ---------------------------------------------- *)
(* the driving term without its Hermitian conjugate *)
RECURSIVE driving_loop_raising_only(_, _, _, _)
driving_loop_raising_only(Hm, j, n, Omega_gr) ==
    IF j >= n THEN Hm
    ELSE driving_loop_raising_only(
            MAdd(Hm, MScale(Omega_gr, tensor_product(op_list_site(n, j, sigma_plus)))),
            j + 1, n, Omega_gr)

RECURSIVE driving_loop(_, _, _, _)
driving_loop(Hm, j, n, Omega_gr) ==
    IF j >= n THEN Hm
    ELSE driving_loop(
            MAdd(Hm, MScale(Omega_gr,
                 tensor_product(op_list_site(n, j, MAdd(sigma_plus, sigma_minus))))),
            j + 1, n, Omega_gr)

RECURSIVE detuning_loop(_, _, _, _)
detuning_loop(Hm, j, n, Delta_gr) ==
    IF j >= n THEN Hm
    ELSE detuning_loop(
            MAdd(Hm, MScale(Delta_gr, tensor_product(op_list_site(n, j, number_operator)))),
            j + 1, n, Delta_gr)

(* the interaction sum closed into a ring: the pair (N-1, 0) is added *)
RECURSIVE interaction_loop_periodic(_, _, _, _)
interaction_loop_periodic(Hm, j, n, V_rr) ==
    IF j >= n THEN Hm
    ELSE interaction_loop_periodic(
            MAdd(Hm, MScale(V_rr, tensor_product(
                 [i \in 1..n |-> IF i = j + 1 \/ i = ((j + 1) % n) + 1
                                 THEN number_operator ELSE Id]))),
            j + 1, n, V_rr)

(* the interaction sum stopped one pair early: the pair (N-2, N-1) is left out *)
RECURSIVE interaction_loop_short(_, _, _, _)
interaction_loop_short(Hm, j, n, V_rr) ==
    IF j >= n - 2 THEN Hm
    ELSE interaction_loop_short(
            MAdd(Hm, MScale(V_rr, tensor_product(op_list_pair(n, j, number_operator)))),
            j + 1, n, V_rr)

RECURSIVE interaction_loop(_, _, _, _)
interaction_loop(Hm, j, n, V_rr) ==
    IF j >= n - 1 THEN Hm
    ELSE interaction_loop(
            MAdd(Hm, MScale(V_rr, tensor_product(op_list_pair(n, j, number_operator)))),
            j + 1, n, V_rr)

build_hamiltonian_amplification(n, p) ==
    LET dim == Pow2(n)
        H0 == zeros(dim, dim)
        H1 == driving_loop(H0, 0, n, p.Omega_gr)
        H2 == detuning_loop(H1, 0, n, p.Delta_gr)
    IN  interaction_loop(H2, 0, n, p.V_rr)

(* QuTiP: tensor(op_list) is the Kronecker product in list order *)
tensor(op_list) == tensor_fold(op_list[1], op_list, 2)
basis(dim, n) == [i \in 0..(dim - 1) |-> [j \in {0} |-> IF i = n THEN COne ELSE CZero]]
qeye(dim) == [i \in 0..(dim - 1) |-> [j \in 0..(dim - 1) |-> IF i = j THEN COne ELSE CZero]]

qutip_sigma_plus == MatMul(basis(2, 1), Dagger(basis(2, 0)))
qutip_sigma_minus == MatMul(basis(2, 0), Dagger(basis(2, 1)))
qutip_n_r == MatMul(basis(2, 1), Dagger(basis(2, 1)))

RECURSIVE qutip_driving_loop(_, _, _, _)
qutip_driving_loop(Hm, j, n, Omega_gr) ==
    IF j >= n THEN Hm
    ELSE qutip_driving_loop(
            MAdd(Hm, MScale(Omega_gr,
                 tensor(op_list_site(n, j, MAdd(qutip_sigma_plus, qutip_sigma_minus))))),
            j + 1, n, Omega_gr)

RECURSIVE qutip_detuning_loop(_, _, _, _)
qutip_detuning_loop(Hm, j, n, Delta_gr) ==
    IF j >= n THEN Hm
    ELSE qutip_detuning_loop(
            MAdd(Hm, MScale(Delta_gr, tensor(op_list_site(n, j, qutip_n_r)))),
            j + 1, n, Delta_gr)

RECURSIVE qutip_interaction_loop(_, _, _, _)
qutip_interaction_loop(Hm, j, n, V_rr) ==
    IF j >= n - 1 THEN Hm
    ELSE qutip_interaction_loop(
            MAdd(Hm, MScale(V_rr, tensor(op_list_pair(n, j, qutip_n_r)))),
            j + 1, n, V_rr)

(* H = 0; H += coeff * tensor(op_list): the scalar 0 is absorbed by the *)
(* first addition                                                        *)
build_hamiltonian_amplification_qutip(n, p) ==
    LET dim == Pow2(n)
        H1 == qutip_driving_loop(zeros(dim, dim), 0, n, p.Omega_gr)
        H2 == qutip_detuning_loop(H1, 0, n, p.Delta_gr)
    IN  qutip_interaction_loop(H2, 0, n, p.V_rr)

RECURSIVE magnetic_driving_loop(_, _, _, _)
magnetic_driving_loop(Hm, j, n, Omega_gr) ==
    IF j >= n THEN Hm
    ELSE magnetic_driving_loop(
            MAdd(Hm, MScale(Omega_gr,
                 tensor(op_list_site(n, j, MAdd(qutip_sigma_plus, qutip_sigma_minus))))),
            j + 1, n, Omega_gr)

RECURSIVE magnetic_detuning_loop(_, _, _, _)
magnetic_detuning_loop(Hm, j, n, Delta_gr) ==
    IF j >= n THEN Hm
    ELSE magnetic_detuning_loop(
            MAdd(Hm, MScale(Delta_gr, tensor(op_list_site(n, j, qutip_n_r)))),
            j + 1, n, Delta_gr)

RECURSIVE magnetic_interaction_loop(_, _, _, _)
magnetic_interaction_loop(Hm, j, n, V_rr) ==
    IF j >= n - 1 THEN Hm
    ELSE magnetic_interaction_loop(
            MAdd(Hm, MScale(V_rr, tensor(op_list_pair(n, j, qutip_n_r)))),
            j + 1, n, V_rr)

build_hamiltonian_magnetic(n, p) ==
    LET dim == Pow2(n)
        H1 == magnetic_driving_loop(zeros(dim, dim), 0, n, p.Omega_gr)
        H2 == magnetic_detuning_loop(H1, 0, n, p.Delta_gr)
    IN  magnetic_interaction_loop(H2, 0, n, p.V_rr)

BuildFor(v, n, p) ==
    CASE v = "numpy" -> build_hamiltonian_amplification(n, p)
      [] v = "qutip" -> build_hamiltonian_amplification_qutip(n, p)
      [] v = "magnetic" -> build_hamiltonian_magnetic(n, p)

(* ---- state preparation ------------------------------------------------ *)
Ket(v) == [amp |-> v, den |-> 1]
DivSqrt(psi, n) == [amp |-> psi.amp, den |-> psi.den * n]
KetAdd(a, b) == [amp |-> MAdd(a.amp, b.amp), den |-> 1]

(* the excitation placed counting sites from the other end of the chain *)
state_list_mirrored(n, site) ==
    [i \in 1..n |-> IF i - 1 = n - 1 - site THEN basis_state(2, 1) ELSE basis_state(2, 0)]

state_list(n, site) ==
    [i \in 1..n |-> IF i - 1 = site THEN basis_state(2, 1) ELSE basis_state(2, 0)]

(* the default site taken as (N-1) // 2 *)
initial_state_local_excitation_low_centre(n, site) ==
    LET kk == IF site = None THEN (n - 1) \div 2 ELSE site[1]
    IN  Ket(tensor_product(state_list(n, kk)))

initial_state_local_excitation(n, site) ==
    LET kk == IF site = None THEN n \div 2 ELSE site[1]
    IN  Ket(tensor_product(state_list(n, kk)))

(* each term of the sum excited one site further along the chain *)
RECURSIVE collective_loop_shifted(_, _, _)
collective_loop_shifted(psi, site, n) ==
    IF site >= n THEN psi
    ELSE collective_loop_shifted(KetAdd(psi, Ket(tensor_product(state_list(n, site + 1)))),
                                 site + 1, n)

RECURSIVE collective_loop(_, _, _)
collective_loop(psi, site, n) ==
    IF site >= n THEN psi
    ELSE collective_loop(KetAdd(psi, Ket(tensor_product(state_list(n, site)))), site + 1, n)

(* the superposition left unnormalised *)
initial_state_collective_excitation_unnormalised(n) ==
    collective_loop(Ket(zeros(Pow2(n), 1)), 0, n)

initial_state_collective_excitation(n) ==
    DivSqrt(collective_loop(Ket(zeros(Pow2(n), 1)), 0, n), n)

qutip_state_list(n, site) ==
    [i \in 1..n |-> IF i - 1 = site THEN basis(2, 1) ELSE basis(2, 0)]

initial_state_local_excitation_qutip(n, site) ==
    LET kk == IF site = None THEN n \div 2 ELSE site[1]
    IN  Ket(tensor(qutip_state_list(n, kk)))

RECURSIVE collective_loop_qutip(_, _, _)
collective_loop_qutip(psi, site, n) ==
    IF site >= n THEN psi
    ELSE collective_loop_qutip(KetAdd(psi, Ket(tensor(qutip_state_list(n, site)))), site + 1, n)

initial_state_collective_excitation_qutip(n) ==
    DivSqrt(collective_loop_qutip(Ket(zeros(Pow2(n), 1)), 0, n), n)

initial_state_single_photon(n, site) ==
    LET kk == IF site = None THEN n \div 2 ELSE site[1]
    IN  Ket(tensor(qutip_state_list(n, kk)))

(* ---- a call of the Hamiltonian builder --------------------------------- *)
(* a variable that holds no value yet *)
Unset == <<>>

Idle ==
    /\ pc = "start" /\ variant = "none" /\ run = Unset /\ N = 0 /\ params = Unset /\ H = Unset
    /\ kind = "none" /\ k = None /\ psi0 = Unset /\ times = <<>> /\ idx = 0
    /\ states = <<>> /\ n_r_operators = <<>> /\ S_spatiotemporal = Unset
    /\ S_total = <<>>

Triples == [Omega_gr : Coeffs, Delta_gr : Coeffs, V_rr : Coeffs]

Build(v, ns, ps) ==
    /\ pc = "start"
    /\ \E n \in ns, p \in ps :
          /\ variant' = v
          /\ N' = n
          /\ params' = p
          /\ H' = BuildFor(v, n, p)
    /\ pc' = "built"
    /\ UNCHANGED <<run, kind, k, psi0, times, idx, states, n_r_operators,
                   S_spatiotemporal, S_total>>

(* ---- rationals (normalised pairs <<num, den>>, den > 0) --------------- *)
RECURSIVE GCD(_, _)
GCD(a, b) == IF b = 0 THEN a ELSE GCD(b, a % b)
Abs(a) == IF a < 0 THEN 0 - a ELSE a
Rat(n, d) ==
    LET g == GCD(Abs(n), Abs(d))
        sgn == IF d < 0 THEN 0 - 1 ELSE 1
    IN  <<(sgn * n) \div g, (sgn * d) \div g>>
RatAdd(a, b) == Rat(a[1] * b[2] + b[1] * a[2], a[2] * b[2])
RatZero == <<0, 1>>
RatOne == <<1, 1>>

(* ---- time evolution ---------------------------------------------------- *)
(* (-i)^m *)
IPow(m) ==
    CASE m % 4 = 0 -> <<1, 0>>
      [] m % 4 = 1 -> <<0, 0 - 1>>
      [] m % 4 = 2 -> <<0 - 1, 0>>
      [] m % 4 = 3 -> <<0, 1>>

IsDiagonal(A) == \A i \in DOMAIN A : \A j \in DOMAIN A[i] : i # j => A[i][j] = CZero

(* expm(-1j * A * t), exact on the two families of Hamiltonians the       *)
(* builder yields with Omega_gr = 0 (diagonal A) or Delta_gr = V_rr = 0   *)
(* (A = Omega * sum_j X_j, whose exponential is the tensor power of       *)
(* (-i X)^(Omega * t)), and on the 2x2 matrices with A*A = 1, Hermitian   *)
(* or not, for which exp(-i*A*x) = cos(x) - i*sin(x)*A; t counts quarter  *)
(* periods.                                                               *)
expm(A, t) ==
    LET dim == Rows(A)
    IN  IF IsDiagonal(A)
        THEN [i \in 0..(dim - 1) |-> [j \in 0..(dim - 1) |->
                 IF i = j THEN IPow(A[i][i][1] * t) ELSE CZero]]
        ELSE IF dim = 2 /\ MatMul(A, A) = Id
        THEN [i \in 0..1 |-> [j \in 0..1 |->
                 IF t % 2 = 1 THEN CMul(IPow(t), A[i][j])
                 ELSE IF i = j THEN IPow(t) ELSE CZero]]
        ELSE LET m == A[0][1][1] * t
                 sites == CHOOSE n \in 0..dim : Pow2(n) = dim
                 phase == IPow(m * sites)
             IN  [i \in 0..(dim - 1) |-> [j \in 0..(dim - 1) |->
                     IF (m % 2 = 0 /\ i = j) \/ (m % 2 = 1 /\ j = dim - 1 - i)
                     THEN phase ELSE CZero]]

(* the propagator truncated after the first order: 1 - i*H*t *)
time_evolution_unitary_first_order(Hm, t) ==
    [i \in DOMAIN Hm |-> [j \in DOMAIN Hm[i] |->
        CAdd(IF i = j THEN COne ELSE CZero, CMul(<<0, 0 - 1>>, CScale(t, Hm[i][j])))]]

time_evolution_unitary(Hm, t) == expm(Hm, t)

Apply(U, psi) == [amp |-> MatMul(U, psi.amp), den |-> psi.den]

(* each new state put in front of the list instead of at its end *)
evolve_state_step_prepend(sts, psi, Hm, t) ==
    <<Apply(time_evolution_unitary(Hm, t), psi)>> \o sts

(* one iteration of the loop of evolve_state *)
evolve_state_step(sts, psi, Hm, t) ==
    LET U_t == time_evolution_unitary(Hm, t)
        psi_t == Apply(U_t, psi)
    IN  Append(sts, psi_t)

(* QuTiP sesolve: the state at tlist[0] is psi0; each later state is the  *)
(* previous one integrated over the step to the next grid point           *)
sesolve_step(sts, psi, Hm, tlist, i) ==
    IF i = 1 THEN Append(sts, psi)
    ELSE Append(sts, Apply(expm(Hm, tlist[i] - tlist[i - 1]), sts[i - 1]))

(* ---- observables -------------------------------------------------------- *)
(* the number operator placed counting sites from the other end *)
operator_n_r_site_mirrored(j, n) ==
    tensor_product(op_list_site(n, n - 1 - j, number_operator))

operator_n_r_site(j, n) == tensor_product(op_list_site(n, j, number_operator))

build_number_operators(n) == [j \in 1..n |-> tensor(op_list_site(n, j - 1, qutip_n_r))]

vdot(a, b) == MatMul(Dagger(a), b)[0][0]

(* np.real(np.vdot(psi_t, n_r_operators[j] @ psi_t)) *)
expectation(op, psi) == Rat(vdot(psi.amp, MatMul(op, psi.amp))[1], psi.den)

(* expect(n_r_ops[j], state) *)
expect(op, psi) == Rat(MatMul(MatMul(Dagger(psi.amp), op), psi.amp)[0][0][1], psi.den)

ExpectFor(v, op, psi) == IF v = "numpy" THEN expectation(op, psi) ELSE expect(op, psi)

RECURSIVE column_sum(_, _, _)
column_sum(S, i, j) ==
    IF j >= Cardinality(DOMAIN S) THEN RatZero
    ELSE RatAdd(S[j][i], column_sum(S, i, j + 1))

(* ---- the engine: build H, prepare psi0, compute the signal ------------ *)
Solvable == {p \in [Omega_gr : Coeffs, Delta_gr : Coeffs, V_rr : Coeffs] :
                p.Omega_gr = 0 \/ (p.Delta_gr = 0 /\ p.V_rr = 0)}

RECURSIVE SeqsUpTo(_, _)
SeqsUpTo(S, n) ==
    IF n = 0 THEN {<<>>}
    ELSE LET shorter == SeqsUpTo(S, n - 1)
         IN  shorter \cup {Append(q, x) : q \in {r \in shorter : Len(r) = n - 1}, x \in S}

Grids == SeqsUpTo(0..MaxTime, MaxLen)
Monotone(g) == \A i \in 1..(Len(g) - 1) : g[i] <= g[i + 1]
SolverGrids == {g \in Grids : Len(g) > 0 /\ Monotone(g)}

LocalFor(v, n, site) ==
    CASE v = "numpy" -> initial_state_local_excitation(n, site)
      [] v = "qutip" -> initial_state_local_excitation_qutip(n, site)
      [] v = "magnetic" -> initial_state_single_photon(n, site)

PrepareLocal ==
    /\ pc = "built"
    /\ \E site \in {Given(j) : j \in 0..(N - 1)} \cup {None} :
          /\ k' = site
          /\ psi0' = LocalFor(variant, N, site)
    /\ kind' = "local"
    /\ pc' = "prepared"
    /\ UNCHANGED <<run, variant, N, params, H, times, idx, states, n_r_operators,
                   S_spatiotemporal, S_total>>

PrepareCollective ==
    /\ pc = "built"
    /\ variant \in {"numpy", "qutip"}
    /\ psi0' = IF variant = "numpy" THEN initial_state_collective_excitation(N)
               ELSE initial_state_collective_excitation_qutip(N)
    /\ kind' = "collective"
    /\ k' = None
    /\ pc' = "prepared"
    /\ UNCHANGED <<run, variant, N, params, H, times, idx, states, n_r_operators,
                   S_spatiotemporal, S_total>>

(* compute_signal_evolution(psi0, H, times, N) is entered *)
Call ==
    /\ pc = "prepared"
    /\ \E g \in (IF variant = "numpy" THEN Grids ELSE SolverGrids) : times' = g
    /\ idx' = 0
    /\ states' = <<>>
    /\ pc' = "evolve"
    /\ UNCHANGED <<run, variant, N, params, H, kind, k, psi0, n_r_operators,
                   S_spatiotemporal, S_total>>

(* the new state written back into psi0 *)
EvolveStep_in_place ==
    /\ pc = "evolve"
    /\ variant = "numpy"
    /\ idx < Len(times)
    /\ states' = evolve_state_step(states, psi0, H, times[idx + 1])
    /\ psi0' = states'[Len(states')]
    /\ idx' = idx + 1
    /\ UNCHANGED <<run, pc, variant, N, params, H, kind, k, times, n_r_operators,
                   S_spatiotemporal, S_total>>

(* one iteration of "for t in times" in evolve_state *)
EvolveStep ==
    /\ pc = "evolve"
    /\ variant = "numpy"
    /\ idx < Len(times)
    /\ states' = evolve_state_step(states, psi0, H, times[idx + 1])
    /\ idx' = idx + 1
    /\ UNCHANGED <<run, pc, variant, N, params, H, kind, k, psi0, times, n_r_operators,
                   S_spatiotemporal, S_total>>

SesolveStep ==
    /\ pc = "evolve"
    /\ variant \in {"qutip", "magnetic"}
    /\ idx < Len(times)
    /\ states' = sesolve_step(states, psi0, H, times, idx + 1)
    /\ idx' = idx + 1
    /\ UNCHANGED <<run, pc, variant, N, params, H, kind, k, psi0, times, n_r_operators,
                   S_spatiotemporal, S_total>>

(* the trajectory is complete: allocate the signal matrix and build the  *)
(* per-site number operators                                              *)
BuildOperators ==
    /\ pc = "evolve"
    /\ idx = Len(times)
    /\ S_spatiotemporal' = [j \in 0..(N - 1) |-> [i \in 0..(Len(times) - 1) |-> RatZero]]
    /\ n_r_operators' = IF variant = "numpy"
                        THEN [j \in 1..N |-> operator_n_r_site(j - 1, N)]
                        ELSE build_number_operators(N)
    /\ idx' = 0
    /\ pc' = "signal"
    /\ UNCHANGED <<run, variant, N, params, H, kind, k, psi0, times, states, S_total>>

(* each signal entry added to the entry of the previous grid index *)
SignalStep_cumulative ==
    /\ pc = "signal"
    /\ idx < Len(states)
    /\ S_spatiotemporal' =
          [j \in 0..(N - 1) |-> [i \in DOMAIN S_spatiotemporal[j] |->
              IF i = idx
              THEN RatAdd(ExpectFor(variant, n_r_operators[j + 1], states[idx + 1]),
                          IF idx = 0 THEN RatZero ELSE S_spatiotemporal[j][idx - 1])
              ELSE S_spatiotemporal[j][i]]]
    /\ idx' = idx + 1
    /\ UNCHANGED <<run, pc, variant, N, params, H, kind, k, psi0, times, states,
                   n_r_operators, S_total>>

(* one iteration of "for idx, psi_t in enumerate(states)" *)
SignalStep ==
    /\ pc = "signal"
    /\ idx < Len(states)
    /\ S_spatiotemporal' =
          [j \in 0..(N - 1) |-> [i \in DOMAIN S_spatiotemporal[j] |->
              IF i = idx THEN ExpectFor(variant, n_r_operators[j + 1], states[idx + 1])
              ELSE S_spatiotemporal[j][i]]]
    /\ idx' = idx + 1
    /\ UNCHANGED <<run, pc, variant, N, params, H, kind, k, psi0, times, states,
                   n_r_operators, S_total>>

Total ==
    /\ pc = "signal"
    /\ idx = Len(states)
    /\ S_total' = [i \in 0..(Len(times) - 1) |-> column_sum(S_spatiotemporal, i, 0)]
    /\ pc' = "done"
    /\ UNCHANGED <<run, variant, N, params, H, kind, k, psi0, times, idx, states,
                   n_r_operators, S_spatiotemporal>>

BuildNumpy == Build("numpy", Chains, Solvable)
BuildQutip == Build("qutip", Chains, Solvable)
BuildMagnetic == Build("magnetic", Chains, Solvable)

Init == Idle
Next ==
    \/ BuildNumpy \/ BuildQutip \/ BuildMagnetic
    \/ PrepareLocal \/ PrepareCollective
    \/ Call \/ EvolveStep \/ SesolveStep
    \/ BuildOperators \/ SignalStep \/ Total
Spec == Init /\ [][Next]_vars

(* ---- the engine of the NumPy module alone (direct propagator) ---------- *)
InitNumpy == Idle
NextNumpy ==
    \/ BuildNumpy
    \/ PrepareLocal \/ PrepareCollective
    \/ Call \/ EvolveStep
    \/ BuildOperators \/ SignalStep \/ Total
SpecNumpy == InitNumpy /\ [][NextNumpy]_vars

(* ---- the Hamiltonian builder on arbitrary coefficient triples --------- *)
BuildNumpyH == Build("numpy", Sizes, Triples)
BuildQutipH == Build("qutip", Sizes, Triples)
BuildMagneticH == Build("magnetic", Sizes, Triples)

InitH == Idle
NextH ==
    \/ BuildNumpyH \/ BuildQutipH \/ BuildMagneticH
    \/ PrepareLocal \/ PrepareCollective
SpecH == InitH /\ [][NextH]_vars

(* ---- the functions called with arguments of the caller's choosing ---- *)
(* tensor_product reads operators[0]: IndexError when given no operators *)
tensor_product_raises(operators) == Len(operators) = 0
(* op_list = [Id] * N; op_list[j] = ...: IndexError outside -len..len-1 *)
setitem_raises(n, j) == n <= 0 \/ j >= n \/ j < 0 - n
(* np.zeros(2**N): 2**N is a float below 1 for negative N, TypeError *)
zeros_raises(n) == n < 0

ArgSizes == (0 - 1)..MaxChain
ArgIndices == (0 - MaxChain - 1)..(MaxChain + 1)

(* real 2x2 matrices on which expm is modelled exactly *)
CallerMatrices ==
    {A \in {Mat2(<<a, 0>>, <<b, 0>>, <<c, 0>>, <<d, 0>>) : a, b, c, d \in Coeffs} :
        IsDiagonal(A) \/ MatMul(A, A) = Id}

(* compute_signal_evolution is about to be called on a matrix that is the *)
(* caller's own, for one atom                                             *)
SupplyMatrix ==
    /\ pc = "start"
    /\ \E A \in CallerMatrices : H' = A
    /\ variant' = "numpy"
    /\ N' = 1
    /\ pc' = "built"
    /\ UNCHANGED <<run, params, kind, k, psi0, times, idx, states, n_r_operators,
                   S_spatiotemporal, S_total>>

(* initial_state_local_excitation(N, k) / initial_state_single_photon(N, k) *)
CallLocal ==
    /\ pc = "start"
    /\ \E v \in Variants, n \in ArgSizes, site \in {Given(j) : j \in ArgIndices} \cup {None} :
          /\ v # "numpy" => n >= 1
          /\ variant' = v
          /\ N' = n
          /\ k' = site
          /\ run' = [call |-> "initial_state_local_excitation"]
          /\ IF tensor_product_raises(state_list(n, 0))
             THEN pc' = "IndexError" /\ UNCHANGED <<kind, psi0>>
             ELSE pc' = "returned" /\ kind' = "local" /\ psi0' = LocalFor(v, n, site)
    /\ UNCHANGED <<params, H, times, idx, states, n_r_operators, S_spatiotemporal, S_total>>

(* initial_state_collective_excitation(N); for N = 0 the zero vector is   *)
(* divided by sqrt(0): den = 0 stands for the entries 0/0 = nan           *)
CallCollective ==
    /\ pc = "start"
    /\ \E n \in ArgSizes :
          /\ variant' = "numpy"
          /\ N' = n
          /\ run' = [call |-> "initial_state_collective_excitation"]
          /\ IF zeros_raises(n)
             THEN pc' = "TypeError" /\ UNCHANGED <<kind, psi0>>
             ELSE pc' = "returned" /\ kind' = "collective"
                  /\ psi0' = initial_state_collective_excitation(n)
    /\ UNCHANGED <<params, H, k, times, idx, states, n_r_operators, S_spatiotemporal,
                   S_total>>

(* build_hamiltonian_amplification(N, params) *)
CallBuild ==
    /\ pc = "start"
    /\ \E n \in ArgSizes, p \in Solvable :
          /\ variant' = "numpy"
          /\ N' = n
          /\ params' = p
          /\ run' = [call |-> "build_hamiltonian_amplification"]
          /\ IF zeros_raises(n)
             THEN pc' = "TypeError" /\ UNCHANGED H
             ELSE pc' = "returned" /\ H' = build_hamiltonian_amplification(n, p)
    /\ UNCHANGED <<kind, k, psi0, times, idx, states, n_r_operators, S_spatiotemporal,
                   S_total>>

(* operator_n_r_site(j, N) *)
CallOperator ==
    /\ pc = "start"
    /\ \E n \in ArgSizes, j \in ArgIndices :
          /\ variant' = "numpy"
          /\ N' = n
          /\ k' = Given(j)
          /\ run' = [call |-> "operator_n_r_site"]
          /\ IF setitem_raises(n, j)
             THEN pc' = "IndexError" /\ UNCHANGED n_r_operators
             ELSE pc' = "returned" /\ n_r_operators' = <<operator_n_r_site(j, n)>>
    /\ UNCHANGED <<params, H, kind, psi0, times, idx, states, S_spatiotemporal, S_total>>


(* ---- parameter sets ----------------------------------------------------- *)
(* Angular frequencies are counted in units of 2*pi*100 rad/s, times in   *)
(* the inverse unit, omega_THz in units of 2*pi GHz, a0 in micrometres,   *)
(* the field in tenths of a tesla, the temperature in kelvin, rates in Hz. *)
RatMul(a, b) == Rat(a[1] * b[1], a[2] * b[2])
RatInt(n) == <<n, 1>>
(* the smaller operand returned *)
Max_smaller(a, b) == IF a >= b THEN b ELSE a

Max(a, b) == IF a >= b THEN a ELSE b

(* every scenario other than 'b' is given the coefficients of 'a' *)
scenario_branch_default_a(scenario) ==
    LET self == [N |-> 11, a0 |-> 6]
    IN  IF scenario = "b"
        THEN self @@ [V_rr |-> 125000, V_ee |-> 50000, V_er |-> 5000,
                      Omega_ge |-> 300000, Omega_gr |-> 2000, omega_THz |-> 1000]
        ELSE self @@ [V_rr |-> 125000, V_ee |-> 90000, V_er |-> 10000,
                      Omega_ge |-> 300000, Omega_gr |-> 2000, omega_THz |-> 54]

(* the attributes that exist after the branch on the scenario: the if /    *)
(* elif has no else, so another scenario assigns none of the coefficients  *)
scenario_branch(scenario) ==
    LET self == [N |-> 11, a0 |-> 6]
    IN  IF scenario = "a"
        THEN self @@ [V_rr |-> 125000, V_ee |-> 90000, V_er |-> 10000,
                      Omega_ge |-> 300000, Omega_gr |-> 2000, omega_THz |-> 54]
        ELSE IF scenario = "b"
        THEN self @@ [V_rr |-> 125000, V_ee |-> 50000, V_er |-> 5000,
                      Omega_ge |-> 300000, Omega_gr |-> 2000, omega_THz |-> 1000]
        ELSE self

(* reading an attribute that was never assigned raises AttributeError *)
getattr_raises(self, name) == name \notin DOMAIN self

(* self.Delta_gr = -self.V_rr; self.T_a_optimal = self.N / self.Omega_gr *)
RydbergDetectorParams(scenario) ==
    LET self == scenario_branch(scenario)
    IN  self @@ [Delta_gr |-> 0 - self.V_rr,
                 T_a_optimal |-> Rat(self.N, self.Omega_gr)]

scenario_branch_qutip(scenario) ==
    LET self == [N |-> 11, a0 |-> 6]
    IN  IF scenario = "a"
        THEN self @@ [V_rr |-> 125000, V_ee |-> 90000, V_er |-> 10000,
                      Omega_ge |-> 300000, Omega_gr |-> 2000, omega_THz |-> 54]
        ELSE IF scenario = "b"
        THEN self @@ [V_rr |-> 125000, V_ee |-> 50000, V_er |-> 5000,
                      Omega_ge |-> 300000, Omega_gr |-> 2000, omega_THz |-> 1000]
        ELSE self

RydbergDetectorParams_qutip(scenario) ==
    LET self == scenario_branch_qutip(scenario)
    IN  self @@ [Delta_gr |-> 0 - self.V_rr,
                 T_a_optimal |-> Rat(self.N, self.Omega_gr),
                 scenario |-> scenario]

(* mu_B / (2*pi*h_bar) for a tenth of a tesla, as a number of frequency    *)
(* units: 1.3996e9 / 628.3                                                 *)
mu_B_over_h == 2227572

(* the shifts computed for a field one tenth of a tesla above the given one *)
MagneticRydbergSystem_offset_field(B_field, temperature) ==
    [B |-> B_field, T |-> temperature, n_r |-> 68, n_e |-> 70,
     zeeman_r |-> mu_B_over_h * 2 * (B_field + 1),
     zeeman_e |-> (mu_B_over_h * 3 * (B_field + 1)) \div 2]

(* MagneticRydbergSystem.__init__ with _calculate_zeeman_shifts *)
MagneticRydbergSystem(B_field, temperature) ==
    [B |-> B_field, T |-> temperature, n_r |-> 68, n_e |-> 70,
     zeeman_r |-> mu_B_over_h * 2 * B_field,
     zeeman_e |-> (mu_B_over_h * 3 * B_field) \div 2]

(* the quadratic suppression without its floor *)
modified_interaction_strength_unfloored(sys, V_0) ==
    LET scaling == IF sys.B < 5 THEN 1000 ELSE 1000 - sys.B * sys.B
    IN  (V_0 * scaling) \div 1000

(* scaling in thousandths; the threshold 0.5 T is 5 tenths *)
modified_interaction_strength(sys, V_0) ==
    LET scaling == IF sys.B < 5 THEN 1000
                   ELSE Max(1000 - sys.B * sys.B, 500)
    IN  (V_0 * scaling) \div 1000

(* Delta_E / k_B = 54e9 * 2*pi*h_bar / k_B = 2.592 K, in millikelvin *)
Delta_E_over_k_B == 2592
Gamma_0 == 1000
ExpTerms == 12

(* sum of x^n / n! for n = n0..ExpTerms, in thousandths, x in thousandths *)
RECURSIVE exp_series(_, _, _)
exp_series(x, term, n0) ==
    IF n0 > ExpTerms THEN 0
    ELSE LET next == (term * x) \div (1000 * n0)
         IN  next + exp_series(x, next, n0 + 1)

(* np.exp(-x) for x >= 0, in thousandths, x in thousandths *)
np_exp_minus(x) == 1000000 \div (1000 + exp_series(x, 1000, 1))

(* the Boltzmann factor taken as 1 where the temperature is not positive *)
thermal_excitation_rate_saturated(sys) ==
    LET boltzmann == IF sys.T > 0 THEN np_exp_minus(Delta_E_over_k_B \div sys.T)
                     ELSE 1000
    IN  (Gamma_0 * boltzmann) \div 1000

thermal_excitation_rate(sys) ==
    LET boltzmann == IF sys.T > 0 THEN np_exp_minus(Delta_E_over_k_B \div sys.T)
                     ELSE 0
    IN  (Gamma_0 * boltzmann) \div 1000

RydbergAxionDetectorParams(B_field, temperature, n) ==
    LET mag_system == MagneticRydbergSystem(B_field, temperature)
        V_rr_0 == 125000
        V_ee_0 == 90000
        V_er_0 == 10000
        Omega_gr_0 == 2000
        V == modified_interaction_strength(mag_system, V_rr_0)
        mixing_factor == 2000 - B_field * B_field
        Om == (Omega_gr_0 * Max(mixing_factor, 1400)) \div 2000
        zeeman_correction == mag_system.zeeman_r - mag_system.zeeman_e
    IN  [N |-> n, a0 |-> 6, B |-> B_field, T |-> temperature,
         mag_system |-> mag_system,
         V_rr_0 |-> V_rr_0, V_ee_0 |-> V_ee_0, V_er_0 |-> V_er_0,
         Omega_ge |-> 300000, Omega_gr_0 |-> Omega_gr_0,
         V_rr |-> V,
         V_ee |-> modified_interaction_strength(mag_system, V_ee_0),
         V_er |-> modified_interaction_strength(mag_system, V_er_0),
         Omega_gr |-> Om,
         Delta_gr |-> (0 - V) + zeeman_correction,
         T_a_optimal |-> Rat(n, Om),
         dark_rate |-> thermal_excitation_rate(mag_system)]

(* np.linspace(start, stop, num) for start = 0 *)
linspace0(stop, num) ==
    [i \in 1..num |-> IF num = 1 THEN RatZero ELSE RatMul(stop, Rat(i - 1, num - 1))]

(* ---- the simulation drivers -------------------------------------------- *)
Scenarios == {"a", "b"}
Factors == 1..MaxFactor
Points == 2..MaxPoints
Fields == 0..MaxField
Temperatures == 0..MaxTemperature

(* run_simulation_local_excitation / run_simulation_collective_excitation *)
(* (NumPy) is called and constructs its parameter set                     *)
RunNumpy ==
    /\ pc = "start"
    /\ \E n \in Sizes, sc \in Scenarios, f \in Factors, d \in {"local", "collective"} :
          /\ run' = [driver |-> d, scenario |-> sc, max_time_factor |-> f,
                     n_times |-> IF n <= 7 THEN 100 ELSE (IF n <= 9 THEN 50 ELSE 40)]
          /\ N' = n
          /\ params' = RydbergDetectorParams(sc)
    /\ variant' = "numpy"
    /\ pc' = "constructed"
    /\ UNCHANGED <<H, kind, k, psi0, times, idx, states, n_r_operators,
                   S_spatiotemporal, S_total>>

RunQutip ==
    /\ pc = "start"
    /\ \E n \in Sizes, sc \in Scenarios, f \in Factors, nt \in Points,
          d \in {"local", "collective"} :
          /\ run' = [driver |-> d, scenario |-> sc, max_time_factor |-> f, n_times |-> nt]
          /\ N' = n
          /\ params' = RydbergDetectorParams_qutip(sc)
    /\ variant' = "qutip"
    /\ pc' = "constructed"
    /\ UNCHANGED <<H, kind, k, psi0, times, idx, states, n_r_operators,
                   S_spatiotemporal, S_total>>

(* params.N = N *)
SetN ==
    /\ pc = "constructed"
    /\ params' = [params EXCEPT !.N = N]
    /\ pc' = "ready"
    /\ UNCHANGED <<variant, run, N, H, kind, k, psi0, times, idx, states,
                   n_r_operators, S_spatiotemporal, S_total>>

(* run_axion_detection_simulation is called and constructs its parameter  *)
(* set from the field, the temperature and N                              *)
RunAxion ==
    /\ pc = "start"
    /\ \E n \in Sizes, B \in Fields, T \in Temperatures, f \in Factors, nt \in Points :
          /\ run' = [driver |-> "local", B_field |-> B, temperature |-> T,
                     max_time_factor |-> f, n_times |-> nt]
          /\ N' = n
          /\ params' = RydbergAxionDetectorParams(B, T, n)
    /\ variant' = "magnetic"
    /\ pc' = "ready"
    /\ UNCHANGED <<H, kind, k, psi0, times, idx, states, n_r_operators,
                   S_spatiotemporal, S_total>>

RunBuild ==
    /\ pc = "ready"
    /\ H' = BuildFor(variant, N, params)
    /\ pc' = "run_built"
    /\ UNCHANGED <<variant, run, N, params, kind, k, psi0, times, idx, states,
                   n_r_operators, S_spatiotemporal, S_total>>

RunPrepare ==
    /\ pc = "run_built"
    /\ kind' = run.driver
    /\ k' = IF run.driver = "local" THEN Given(N \div 2) ELSE None
    /\ psi0' = IF run.driver = "local" THEN LocalFor(variant, N, Given(N \div 2))
               ELSE IF variant = "numpy" THEN initial_state_collective_excitation(N)
               ELSE initial_state_collective_excitation_qutip(N)
    /\ pc' = "run_prepared"
    /\ UNCHANGED <<variant, run, N, params, H, times, idx, states,
                   n_r_operators, S_spatiotemporal, S_total>>

(* t_max = max_time_factor * params.T_a_optimal; times = linspace(0, t_max, n_times) *)
RunGrid ==
    /\ pc = "run_prepared"
    /\ times' = linspace0(RatMul(RatInt(run.max_time_factor), params.T_a_optimal),
                          run.n_times)
    /\ pc' = "run_gridded"
    /\ UNCHANGED <<variant, run, N, params, H, kind, k, psi0, idx, states,
                   n_r_operators, S_spatiotemporal, S_total>>

InitRun == Idle
NextRun == RunNumpy \/ RunQutip \/ RunAxion \/ SetN \/ RunBuild \/ RunPrepare \/ RunGrid
SpecRun == InitRun /\ [][NextRun]_vars

(* ---- the analysis at the end of run_axion_detection_simulation --------- *)
MaxAtoms == 4

RatSub(a, b) == Rat(a[1] * b[2] - b[1] * a[2], a[2] * b[2])
RatAbs(a) == <<Abs(a[1]), a[2]>>
RatLess(a, b) == a[1] * b[2] < b[1] * a[2]

(* np.argmin(v): the index, counted from 0, of the first smallest entry *)
RECURSIVE argmin_from(_, _, _)
argmin_from(v, i, best) ==
    IF i > Len(v) THEN best
    ELSE argmin_from(v, i + 1, IF RatLess(v[i], v[best]) THEN i ELSE best)
np_argmin(v) == argmin_from(v, 2, 1) - 1

detection_threshold == RatInt(3)

(* a signal equal to the threshold counted as a detection *)
detection_efficiency_inclusive(S_opt) ==
    IF RatLess(S_opt, detection_threshold) THEN 0 ELSE 1

(* 1.0 if S_total[idx_opt] > detection_threshold else 0.0 *)
detection_efficiency(S_opt) ==
    IF RatLess(detection_threshold, S_opt) THEN 1 ELSE 0

(* 'YES' if detection_efficiency > 0.5 else 'NO' *)
detection_verdict(efficiency) == IF 2 * efficiency > 1 THEN "YES" ELSE "NO"

(* the simulation has returned: the grid of the run and a total signal,    *)
(* which starts at 1 (one excitation) and never exceeds the atom count;    *)
(* the analysis reads nothing else                                         *)
ArgFields == {0, 5, MaxField}
TimeFactors == {Rat(1, 2)} \cup {RatInt(f) : f \in Factors}
SignalLevels(n) == {s \in {RatOne, RatInt(3), Rat(7, 2)} : ~RatLess(RatInt(n), s)}

InitAnalysis ==
    /\ pc = "simulated"
    /\ variant = "magnetic"
    /\ \E n \in 1..MaxAtoms, B \in ArgFields, T \in {0, MaxTemperature},
          f \in TimeFactors, nt \in Points :
          /\ N = n
          /\ params = RydbergAxionDetectorParams(B, T, n)
          /\ run = [call |-> "run_axion_detection_simulation", B_field |-> B,
                    temperature |-> T, max_time_factor |-> f, n_times |-> nt]
          /\ times = linspace0(RatMul(f, params.T_a_optimal), nt)
          /\ S_total \in {S \in [0..(nt - 1) -> SignalLevels(n)] : S[0] = RatOne}
    /\ H = Unset /\ kind = "local" /\ k = Given(N \div 2) /\ psi0 = Unset
    /\ idx = 0 /\ states = <<>> /\ n_r_operators = <<>> /\ S_spatiotemporal = Unset

(* idx_opt = np.argmin(np.abs(times - params.T_a_optimal)) *)
LocateOptimum ==
    /\ pc = "simulated"
    /\ idx' = np_argmin([i \in 1..Len(times) |->
                            RatAbs(RatSub(times[i], params.T_a_optimal))])
    /\ pc' = "located"
    /\ UNCHANGED <<variant, run, N, params, H, kind, k, psi0, times, states,
                   n_r_operators, S_spatiotemporal, S_total>>

Decide ==
    /\ pc = "located"
    /\ run' = run @@ [detection_efficiency |-> detection_efficiency(S_total[idx]),
                      verdict |-> detection_verdict(detection_efficiency(S_total[idx]))]
    /\ pc' = "decided"
    /\ UNCHANGED <<variant, N, params, H, kind, k, psi0, times, idx, states,
                   n_r_operators, S_spatiotemporal, S_total>>

NextAnalysis == LocateOptimum \/ Decide
SpecAnalysis == InitAnalysis /\ [][NextAnalysis]_vars

(* ---- scan_magnetic_field ------------------------------------------------ *)
MaxScan == 2

(* AxionDetectionParameters(axion_mass_ueV, B_field): the mass in micro-eV *)
AxionDetectionParameters(axion_mass_ueV, B_field) ==
    [m_a |-> axion_mass_ueV, B |-> B_field, V_cavity |-> 1]

(* what run_axion_detection_simulation returns; the signal arrays are       *)
(* compute_signal_evolution_magnetic(psi0, H, times, N), kept as its        *)
(* arguments                                                                *)
run_axion_detection_simulation(B_field, temperature, n, max_time_factor, n_times) ==
    LET p == RydbergAxionDetectorParams(B_field, temperature, n)
        grid == linspace0(RatMul(RatInt(max_time_factor), p.T_a_optimal), n_times)
    IN  [times |-> grid,
         signal |-> [psi0 |-> initial_state_single_photon(n, Given(n \div 2)),
                     H |-> build_hamiltonian_magnetic(n, p),
                     times |-> grid, N |-> n],
         params |-> p,
         axion |-> AxionDetectionParameters(20, B_field)]

ScanCall ==
    /\ pc = "start"
    /\ \E n \in Chains, T \in Temperatures, Bs \in SeqsUpTo(ArgFields, MaxScan) :
          /\ N' = n
          /\ run' = [call |-> "scan_magnetic_field", B_values |-> Bs, temperature |-> T,
                     position |-> 0, results |-> <<>>]
    /\ variant' = "magnetic"
    /\ pc' = "scan"
    /\ UNCHANGED <<params, H, kind, k, psi0, times, idx, states, n_r_operators,
                   S_spatiotemporal, S_total>>

(* the parameter object of the first field value kept for the later ones *)
ScanIteration_keeping_params ==
    /\ pc = "scan"
    /\ run.position < Len(run.B_values)
    /\ LET B == run.B_values[run.position + 1]
       IN  /\ params' = IF params = Unset
                        THEN RydbergAxionDetectorParams(B, run.temperature, N)
                        ELSE params
           /\ H' = build_hamiltonian_magnetic(N, params')
           /\ psi0' = initial_state_single_photon(N, Given(N \div 2))
           /\ times' = linspace0(RatMul(RatInt(8), params'.T_a_optimal), 80)
           /\ run' = [run EXCEPT
                        !.position = @ + 1,
                        !.results = [b \in DOMAIN @ \cup {B} |->
                            IF b = B
                            THEN [times |-> times',
                                  signal |-> [psi0 |-> psi0', H |-> H',
                                              times |-> times', N |-> N],
                                  params |-> params',
                                  axion |-> AxionDetectionParameters(20, B)]
                            ELSE @[b]]]
    /\ kind' = "local"
    /\ k' = Given(N \div 2)
    /\ UNCHANGED <<pc, variant, N, idx, states, n_r_operators, S_spatiotemporal, S_total>>

(* one iteration of "for B in B_values": the run with max_time_factor = 8  *)
(* and n_times = 80, and results[B] = {...}                                *)
ScanIteration ==
    /\ pc = "scan"
    /\ run.position < Len(run.B_values)
    /\ LET B == run.B_values[run.position + 1]
       IN  /\ params' = RydbergAxionDetectorParams(B, run.temperature, N)
           /\ H' = build_hamiltonian_magnetic(N, params')
           /\ psi0' = initial_state_single_photon(N, Given(N \div 2))
           /\ times' = linspace0(RatMul(RatInt(8), params'.T_a_optimal), 80)
           /\ run' = [run EXCEPT
                        !.position = @ + 1,
                        !.results = [b \in DOMAIN @ \cup {B} |->
                            IF b = B
                            THEN [times |-> times',
                                  signal |-> [psi0 |-> psi0', H |-> H',
                                              times |-> times', N |-> N],
                                  params |-> params',
                                  axion |-> AxionDetectionParameters(20, B)]
                            ELSE @[b]]]
    /\ kind' = "local"
    /\ k' = Given(N \div 2)
    /\ UNCHANGED <<pc, variant, N, idx, states, n_r_operators, S_spatiotemporal, S_total>>

(* return results *)
ScanReturn ==
    /\ pc = "scan"
    /\ run.position = Len(run.B_values)
    /\ pc' = "returned"
    /\ UNCHANGED <<variant, run, N, params, H, kind, k, psi0, times, idx, states,
                   n_r_operators, S_spatiotemporal, S_total>>

InitScan == Idle
NextScan == ScanCall \/ ScanIteration \/ ScanReturn
SpecScan == InitScan /\ [][NextScan]_vars

(* ---- parameter sets and helpers called directly ------------------------ *)
MaxOps == 3
ArgScenarios == {"a", "b", "c"}
ArgTemperatures == (0 - 1)..MaxTemperature

(* RydbergDetectorParams(scenario), NumPy and QuTiP modules *)
CallDetectorParams ==
    /\ pc = "start"
    /\ \E v \in {"numpy", "qutip"}, sc \in ArgScenarios :
          /\ variant' = v
          /\ run' = [call |-> "RydbergDetectorParams", scenario |-> sc]
          /\ IF getattr_raises(IF v = "numpy" THEN scenario_branch(sc)
                               ELSE scenario_branch_qutip(sc), "V_rr")
             THEN pc' = "AttributeError" /\ UNCHANGED params
             ELSE pc' = "returned"
                  /\ params' = IF v = "numpy" THEN RydbergDetectorParams(sc)
                               ELSE RydbergDetectorParams_qutip(sc)
    /\ UNCHANGED <<N, H, kind, k, psi0, times, idx, states, n_r_operators,
                   S_spatiotemporal, S_total>>

(* RydbergAxionDetectorParams(B_field, temperature, N) *)
CallAxionParams ==
    /\ pc = "start"
    /\ \E n \in Chains, B \in ArgFields, T \in ArgTemperatures :
          /\ N' = n
          /\ run' = [call |-> "RydbergAxionDetectorParams"]
          /\ params' = RydbergAxionDetectorParams(B, T, n)
    /\ variant' = "magnetic"
    /\ pc' = "returned"
    /\ UNCHANGED <<H, kind, k, psi0, times, idx, states, n_r_operators,
                   S_spatiotemporal, S_total>>

(* MagneticRydbergSystem(B_field, temperature).thermal_excitation_rate() *)
CallThermalRate ==
    /\ pc = "start"
    /\ \E B \in ArgFields, T \in ArgTemperatures :
          /\ params' = MagneticRydbergSystem(B, T)
          /\ run' = [call |-> "thermal_excitation_rate",
                     Gamma_th |-> thermal_excitation_rate(MagneticRydbergSystem(B, T))]
    /\ variant' = "magnetic"
    /\ pc' = "returned"
    /\ UNCHANGED <<N, H, kind, k, psi0, times, idx, states, n_r_operators,
                   S_spatiotemporal, S_total>>

(* tensor_product(A, B, ...) with operands of the caller's choosing:       *)
(* 2 x 2 matrices, real and complex, and a 2 x 1 column                    *)
TensorOperands ==
    {Id, sigma_plus, number_operator, basis_state(2, 1),
     Mat2(CZero, <<0, 0 - 1>>, <<0, 1>>, CZero)}

CallTensor ==
    /\ pc = "start"
    /\ \E operators \in SeqsUpTo(TensorOperands, MaxOps) :
          /\ run' = [call |-> "tensor_product", operators |-> operators]
          /\ IF tensor_product_raises(operators)
             THEN pc' = "IndexError" /\ UNCHANGED H
             ELSE pc' = "returned" /\ H' = tensor_product(operators)
    /\ variant' = "numpy"
    /\ UNCHANGED <<N, params, kind, k, psi0, times, idx, states, n_r_operators,
                   S_spatiotemporal, S_total>>

InitCalls == Idle
NextCalls ==
    \/ SupplyMatrix \/ PrepareLocal \/ PrepareCollective
    \/ Call \/ EvolveStep \/ BuildOperators \/ SignalStep \/ Total
    \/ CallLocal \/ CallCollective \/ CallBuild \/ CallOperator
    \/ CallDetectorParams \/ CallAxionParams \/ CallThermalRate \/ CallTensor
SpecCalls == InitCalls /\ [][NextCalls]_vars

(* ======================================================================== *)
(* Properties                                                               *)
(* ======================================================================== *)
Dim == Pow2(N)
Configs == 0..(Dim - 1)
Sites == 0..(N - 1)

(* site 0 is the most significant bit of a basis index *)
Bit(b, j) == (b \div Pow2(N - 1 - j)) % 2
ExcitedCount(b) == Cardinality({j \in Sites : Bit(b, j) = 1})
NeighbourPairs(b) == Cardinality({j \in 0..(N - 2) : Bit(b, j) = 1 /\ Bit(b, j + 1) = 1})
Differ(b, c) == Cardinality({j \in Sites : Bit(b, j) # Bit(c, j)})

(* C1: the built Hamiltonian has diagonal entries Delta * (excited sites)  *)
(* + V * (excited neighbour pairs j, j+1 with j <= N-2, no wrap-around)    *)
(* and off-diagonal entries Omega between configurations that differ at    *)
(* exactly one site, 0 otherwise; in all three builders.                   *)
HamiltonianEntries ==
    pc = "built" =>
        /\ DOMAIN H = Configs
        /\ \A b \in Configs :
              /\ DOMAIN H[b] = Configs
              /\ \A c \in Configs :
                    H[b][c] =
                       IF b = c
                       THEN <<params.Delta_gr * ExcitedCount(b)
                              + params.V_rr * NeighbourPairs(b), 0>>
                       ELSE IF Differ(b, c) = 1 THEN <<params.Omega_gr, 0>>
                       ELSE CZero

HamiltonianEntriesSeen ==
    /\ pc = "built"
    /\ N >= 3
    /\ params.Omega_gr # 0 /\ params.Delta_gr # 0 /\ params.V_rr # 0
    /\ H[Dim - 1][Dim - 1] = <<N * params.Delta_gr + (N - 1) * params.V_rr, 0>>
    /\ H[Dim \div 2 + 1][Dim \div 2 + 1] = <<2 * params.Delta_gr, 0>>

(* C2: the built Hamiltonian equals its conjugate transpose. *)
HamiltonianHermitian ==
    pc = "built" => \A b \in Configs : \A c \in Configs : H[b][c] = CConj(H[c][b])

HamiltonianHermitianSeen ==
    /\ pc = "built"
    /\ N >= 2
    /\ params.Omega_gr # 0
    /\ H[0][1] # CZero
    /\ H[1][0] # CZero

HasState == pc \in {"prepared", "evolve", "signal", "done"}
SiteUsed == IF k = None THEN N \div 2 ELSE k[1]

RECURSIVE Norm2From(_, _)
Norm2From(v, b) ==
    IF b >= Cardinality(DOMAIN v) THEN 0 ELSE CAbs2(v[b][0]) + Norm2From(v, b + 1)
Norm2(v) == Norm2From(v, 0)

(* C8: the local-excitation state is the basis vector of index            *)
(* 2^(N-1-k), with k = floor(N/2) when k is omitted.                       *)
LocalStateIsBasisVector ==
    (HasState /\ kind = "local") =>
        /\ psi0.den = 1
        /\ DOMAIN psi0.amp = Configs
        /\ \A b \in Configs :
              psi0.amp[b][0] = IF b = Pow2(N - 1 - SiteUsed) THEN COne ELSE CZero

LocalStateSeen ==
    /\ pc = "prepared" /\ kind = "local"
    /\ N >= 2
    /\ \/ k = Given(0) /\ psi0.amp[Dim \div 2][0] = COne
       \/ k = None /\ N = 2 /\ psi0.amp[1][0] = COne

(* C9: the collective state has amplitude 1/sqrt(N) at the N               *)
(* configurations with exactly one excited site and 0 elsewhere; its       *)
(* squared amplitudes sum to 1.                                            *)
CollectiveStateUniform ==
    (HasState /\ kind = "collective") =>
        /\ psi0.den = N
        /\ DOMAIN psi0.amp = Configs
        /\ \A b \in Configs :
              psi0.amp[b][0] = IF ExcitedCount(b) = 1 THEN COne ELSE CZero
        /\ Cardinality({b \in Configs : psi0.amp[b][0] # CZero}) = N
        /\ Norm2(psi0.amp) = psi0.den

CollectiveStateSeen ==
    /\ pc = "prepared" /\ kind = "collective"
    /\ N >= 2
    /\ psi0.amp[1][0] = COne /\ psi0.amp[2][0] = COne /\ psi0.amp[3][0] = CZero

(* the state the direct propagator yields for grid entry i (1-based) *)
DirectState(i) == Apply(time_evolution_unitary(H, times[i]), psi0)

(* C3: evolve_state terminates and returns len(times) states, the i-th    *)
(* being exp(-i*H*times[i]) * psi0, in grid order: the states produced so *)
(* far are those of the grid entries passed, in order; every step of the  *)
(* loop passes exactly one further entry (so len(times) - idx decreases   *)
(* to 0), and the loop is left only with one state per grid entry.        *)
EvolveStateReturnsGridOrder ==
    /\ []((variant = "numpy" /\ pc \in {"evolve", "signal", "done"}) =>
            /\ Len(states) = (IF pc = "evolve" THEN idx ELSE Len(times))
            /\ \A i \in 1..Len(states) : states[i] = DirectState(i))
    /\ [][(variant = "numpy" /\ pc = "evolve") =>
            \/ /\ pc' = "evolve"
               /\ idx < Len(times)
               /\ idx' = idx + 1
               /\ Len(states') = Len(states) + 1
               /\ times' = times
            \/ /\ pc' = "signal"
               /\ idx = Len(times)
               /\ states' = states
               /\ Len(states) = Len(times)]_vars

EvolveStateSeen ==
    /\ variant = "numpy" /\ pc = "signal"
    /\ Len(times) >= 2
    /\ times[1] > times[2]
    /\ states[1] # states[2]

(* C4: on a non-empty non-decreasing grid of non-negative times the       *)
(* sesolve-based solver returns, at every grid index, the state and the   *)
(* signal of the direct propagator, whatever the first time point.        *)
SolverMatchesPropagator ==
    (variant \in {"qutip", "magnetic"} /\ pc = "done") =>
        \A i \in 1..Len(times) :
            /\ states[i] = DirectState(i)
            /\ \A j \in Sites :
                  S_spatiotemporal[j][i - 1]
                     = expectation(operator_n_r_site(j, N), DirectState(i))

(* C5: every state of the output trajectory has norm 1. *)
TrajectoryNormOne ==
    \A i \in 1..Len(states) : Norm2(states[i].amp) = states[i].den

TrajectoryNormSeen ==
    /\ pc = "done"
    /\ Norm2(psi0.amp) = psi0.den
    /\ Len(states) >= 2
    /\ \E i \in 1..Len(states) : states[i] # psi0

RECURSIVE OccupationFrom(_, _, _)
OccupationFrom(v, j, b) ==
    IF b >= Dim THEN 0
    ELSE (IF Bit(b, j) = 1 THEN CAbs2(v[b][0]) ELSE 0) + OccupationFrom(v, j, b + 1)
(* total squared amplitude of the configurations with site j excited *)
Occupation(psi, j) == Rat(OccupationFrom(psi.amp, j, 0), psi.den)

RECURSIVE SiteSum(_, _)
SiteSum(i, j) ==
    IF j >= N THEN RatZero ELSE RatAdd(S_spatiotemporal[j][i], SiteSum(i, j + 1))

GridIndices == 0..(Len(times) - 1)

(* C6: the signal is an N x T matrix whose entry [j, i] is the occupation *)
(* of site j in the i-th state, with a length-T vector of column sums.    *)
SignalIsSiteOccupation ==
    pc = "done" =>
        /\ DOMAIN S_spatiotemporal = Sites
        /\ DOMAIN S_total = GridIndices
        /\ \A j \in Sites :
              /\ DOMAIN S_spatiotemporal[j] = GridIndices
              /\ \A i \in GridIndices :
                    S_spatiotemporal[j][i] = Occupation(states[i + 1], j)
        /\ \A i \in GridIndices : S_total[i] = SiteSum(i, 0)

SignalSeen ==
    /\ pc = "done"
    /\ N >= 2
    /\ Len(times) >= 2
    /\ S_spatiotemporal[0][0] # S_spatiotemporal[0][1]
    /\ S_spatiotemporal[0][0] # S_spatiotemporal[1][0]
    /\ S_total[0] = RatOne /\ S_total[1] = RatOne

(* C7: at t = 0 the signal is the site occupation of the initial state:   *)
(* 1 at the excited site and 0 elsewhere for a local excitation, 1/N at   *)
(* every site for the collective state, and total signal 1.               *)
SignalAtTimeZero ==
    pc = "done" =>
        \A i \in GridIndices :
            times[i + 1] = 0 =>
                /\ kind = "local" =>
                      \A j \in Sites :
                          S_spatiotemporal[j][i] = IF j = SiteUsed THEN RatOne ELSE RatZero
                /\ kind = "collective" =>
                      \A j \in Sites : S_spatiotemporal[j][i] = Rat(1, N)
                /\ S_total[i] = RatOne

SignalAtTimeZeroSeen ==
    /\ pc = "done"
    /\ N = 2 /\ kind = "local" /\ k = Given(1)
    /\ Len(times) >= 1 /\ times[1] = 0
    /\ S_spatiotemporal[0][0] = RatZero
    /\ S_spatiotemporal[1][0] = RatOne
    /\ S_total[0] = RatOne

(* C10: the parameter set used to build the Hamiltonian and the time grid *)
(* satisfies T_a_optimal = N / Omega_gr for the atom count N the run      *)
(* simulates, in all three variants.                                      *)
OptimalTimeMatchesAtomCount ==
    pc \in {"run_built", "run_prepared", "run_gridded"} =>
        /\ params.N = N
        /\ params.T_a_optimal = Rat(N, params.Omega_gr)

(* C11: no state vector and no signal value is produced from a            *)
(* Hamiltonian that is not Hermitian: whenever compute_signal_evolution   *)
(* has produced a state, the matrix it was given equals its conjugate     *)
(* transpose.                                                             *)
NonHermitianRejected ==
    (pc \in {"evolve", "signal", "done"} /\ Len(states) > 0) =>
        \A b \in DOMAIN H : \A c \in DOMAIN H : H[b][c] = CConj(H[c][b])

(* C12: no states and no signal arrays are returned for a time grid that  *)
(* is empty or not monotonically non-decreasing: whenever                 *)
(* compute_signal_evolution has returned, its grid is non-empty and       *)
(* ordered.                                                               *)
BadGridRejected ==
    (variant = "numpy" /\ pc = "done") => (Len(times) > 0 /\ Monotone(times))

CallReturned(f) == pc = "returned" /\ run.call = f

(* C13: local-excitation preparation called with k < 0 or k >= N either   *)
(* fails or returns the state excited at the nearest in-range site.       *)
LocalOutOfRangeRejectedOrClamped ==
    (CallReturned("initial_state_local_excitation") /\ k # None
        /\ (k[1] < 0 \/ k[1] >= N)) =>
        psi0 = LocalFor(variant, N, Given(IF k[1] < 0 THEN 0 ELSE N - 1))

(* C14: operator_n_r_site(j, N) returns an operator only for 0 <= j < N.  *)
OperatorIndexRejected ==
    CallReturned("operator_n_r_site") => (k[1] >= 0 /\ k[1] < N)

(* C15: the Hamiltonian builder and both state-preparation functions      *)
(* return a matrix or a vector only for N >= 1.                           *)
InvalidCountRejected ==
    (pc = "returned" /\ run.call \in {"build_hamiltonian_amplification",
                                      "initial_state_local_excitation",
                                      "initial_state_collective_excitation"}) => N >= 1

(* a parameter set of the magnetic variant has been constructed *)
AxionParams == variant = "magnetic" /\ pc \in {"ready", "run_built", "run_prepared", "run_gridded"}

(* C16: constructed with B_field = 0, for every N and temperature, the    *)
(* magnetic parameter set has the zero-field coefficients, those of       *)
(* RydbergDetectorParams('a'), no Zeeman shifts, Delta_gr = -V_rr_0 and   *)
(* T_a_optimal = N / Omega_gr_0.                                          *)
ZeroFieldCoefficients ==
    (AxionParams /\ params.B = 0) =>
        LET zero == RydbergDetectorParams_qutip("a")
        IN  /\ params.N = N
            /\ params.V_rr = params.V_rr_0 /\ params.V_rr = zero.V_rr
            /\ params.V_ee = params.V_ee_0 /\ params.V_ee = zero.V_ee
            /\ params.V_er = params.V_er_0 /\ params.V_er = zero.V_er
            /\ params.Omega_gr = params.Omega_gr_0 /\ params.Omega_gr = zero.Omega_gr
            /\ params.Omega_ge = zero.Omega_ge
            /\ params.mag_system.zeeman_r = 0 /\ params.mag_system.zeeman_e = 0
            /\ params.Delta_gr = 0 - params.V_rr_0 /\ params.Delta_gr = zero.Delta_gr
            /\ params.T_a_optimal = Rat(N, params.Omega_gr_0)

ZeroFieldSeen ==
    /\ AxionParams /\ params.B = 0 /\ params.T > 0 /\ N = 3
    /\ params.V_rr = 125000 /\ params.Delta_gr = 0 - 125000
    /\ params.T_a_optimal = <<3, 2000>>

DriveStrengthMixing ==
    AxionParams =>
        LET mixing == 2000 - params.B * params.B
        IN  /\ 2000 * params.Omega_gr
                  = params.Omega_gr_0 * (IF mixing >= 1400 THEN mixing ELSE 1400)
            /\ 10 * params.Omega_gr >= 7 * params.Omega_gr_0
            /\ params.Omega_gr <= params.Omega_gr_0
            /\ params.T_a_optimal[1] * 7 * params.Omega_gr_0
                  <= 10 * N * params.T_a_optimal[2]

DriveStrengthMixingSeen ==
    /\ AxionParams /\ params.B = 25 /\ N = 2
    /\ params.Omega_gr = 1400
    /\ params.T_a_optimal = <<1, 700>>

(* mu_B / h_bar for a tenth of a tesla, as a number of frequency units:   *)
(* 8.794e9 rad/s / 628.3                                                  *)
mu_B_over_h_bar == 13996245

(* C19: the Zeeman shifts are g * mu_B * B / h_bar with g = 2 and 1.5, in *)
(* the angular-frequency units of V_rr, and Delta_gr + V_rr is            *)
(* 0.5 * mu_B * B / h_bar.                                                *)
ZeemanShiftAngular ==
    AxionParams =>
        /\ params.mag_system.zeeman_r = 2 * mu_B_over_h_bar * params.B
        /\ 2 * params.mag_system.zeeman_e = 3 * mu_B_over_h_bar * params.B
        /\ 2 * (params.Delta_gr + params.V_rr) = mu_B_over_h_bar * params.B

(* C20: the thermal rate is 0 at T = 0, between 0 and Gamma_0 for T > 0,  *)
(* not smaller than the rate at any lower temperature T >= 0, and the     *)
(* same for every field.                                                  *)
ThermalRateMonotone ==
    AxionParams =>
        /\ params.T = 0 => params.dark_rate = 0
        /\ params.T > 0 => (params.dark_rate >= 0 /\ params.dark_rate <= 1000)
        /\ \A B1 \in Fields :
              /\ thermal_excitation_rate(MagneticRydbergSystem(B1, params.T))
                    = params.dark_rate
              /\ \A T1 \in 0..params.T :
                    thermal_excitation_rate(MagneticRydbergSystem(B1, T1))
                        <= params.dark_rate

ThermalRateSeen ==
    /\ AxionParams /\ params.T = 2 /\ params.B > 0
    /\ thermal_excitation_rate(MagneticRydbergSystem(0, 1)) > 0
    /\ params.dark_rate > thermal_excitation_rate(MagneticRydbergSystem(0, 1))
    /\ params.dark_rate < 1000
(* C21: a parameter set of the magnetic variant, or a thermal rate, is     *)
(* returned only for a temperature that is not negative.                   *)
NegativeTemperatureRejected ==
    (pc = "returned" /\ run.call \in {"RydbergAxionDetectorParams",
                                      "thermal_excitation_rate"}) => params.T >= 0

(* C29: RydbergDetectorParams called with a scenario other than 'a' or 'b' *)
(* fails and leaves no parameter object; the objects returned for 'a' and  *)
(* 'b' have Delta_gr = -V_rr.                                              *)
UnknownScenarioRejected ==
    (pc \in {"returned", "AttributeError"} /\ run.call = "RydbergDetectorParams") =>
        /\ run.scenario \notin {"a", "b"} => (pc = "AttributeError" /\ params = Unset)
        /\ pc = "returned" => params.Delta_gr = 0 - params.V_rr

UnknownScenarioSeen ==
    /\ pc = "AttributeError"
    /\ run.call = "RydbergDetectorParams"
    /\ run.scenario = "c"
    /\ params = Unset

RECURSIVE KronLeft(_, _)
KronLeft(operators, n) ==
    IF n = 1 THEN operators[1] ELSE kron(KronLeft(operators, n - 1), operators[n])

RECURSIVE KronRight(_, _)
KronRight(operators, i) ==
    IF i = Len(operators) THEN operators[i]
    ELSE kron(operators[i], KronRight(operators, i + 1))

(* C24: tensor_product of one operator is that operator; of several it is  *)
(* the Kronecker product taken pairwise from the left, which equals the    *)
(* product grouped from the right: for three operands                      *)
(* kron(kron(A, B), C) = kron(A, kron(B, C)).                              *)
TensorProductAssociative ==
    CallReturned("tensor_product") =>
        LET operators == run.operators
        IN  /\ Len(operators) = 1 => H = operators[1]
            /\ Len(operators) = 3 =>
                   /\ H = kron(kron(operators[1], operators[2]), operators[3])
                   /\ H = kron(operators[1], kron(operators[2], operators[3]))
            /\ H = KronLeft(operators, Len(operators))
            /\ H = KronRight(operators, 1)

TensorProductSeen ==
    /\ CallReturned("tensor_product")
    /\ Len(run.operators) = 3
    /\ kron(run.operators[1], run.operators[2]) # kron(run.operators[2], run.operators[1])
    /\ Cols(run.operators[3]) = 1
    /\ H = kron(run.operators[1], kron(run.operators[2], run.operators[3]))

(* C23: the N number operators built for a signal computation are the     *)
(* 2^N x 2^N diagonal matrices whose entry at configuration b is 1 when    *)
(* site j is excited in b (bit N-1-j of b) and 0 otherwise, with no entry  *)
(* off the diagonal; the operators of different sites differ.              *)
NumberOperatorDiagonal ==
    pc \in {"signal", "done"} =>
        /\ DOMAIN n_r_operators = 1..N
        /\ \A j \in Sites :
              /\ DOMAIN n_r_operators[j + 1] = Configs
              /\ \A b \in Configs :
                    /\ DOMAIN n_r_operators[j + 1][b] = Configs
                    /\ \A c \in Configs :
                          n_r_operators[j + 1][b][c] =
                              IF b = c /\ Bit(b, j) = 1 THEN COne ELSE CZero
        /\ \A i, j \in Sites : i # j => n_r_operators[i + 1] # n_r_operators[j + 1]

NumberOperatorSeen ==
    /\ pc = "signal"
    /\ N >= 2
    /\ n_r_operators[1][Pow2(N - 1)][Pow2(N - 1)] = COne
    /\ n_r_operators[N][Pow2(N - 1)][Pow2(N - 1)] = CZero
    /\ n_r_operators[N][1][1] = COne

(* C25: for N = 1 the built matrix is [[0, Omega], [Omega, Delta]] for     *)
(* every V_rr, and the local state with the default site and the          *)
(* collective state are the same vector, the basis vector of index 1.      *)
SingleAtom ==
    N = 1 =>
        /\ pc = "built" =>
               H = Mat2(CZero, <<params.Omega_gr, 0>>,
                        <<params.Omega_gr, 0>>, <<params.Delta_gr, 0>>)
        /\ (pc = "prepared" /\ (kind = "collective" \/ k = None)) =>
               /\ psi0 = Ket(basis_state(2, 1))
               /\ psi0 = LocalFor(variant, 1, None)
               /\ variant = "numpy" => psi0 = initial_state_collective_excitation(1)
               /\ variant = "qutip" => psi0 = initial_state_collective_excitation_qutip(1)

SingleAtomSeen ==
    /\ N = 1
    /\ pc = "prepared"
    /\ kind = "collective"
    /\ params.V_rr # 0
    /\ params.Omega_gr # 0
    /\ params.Delta_gr # 0
    /\ H[1][1] = <<params.Delta_gr, 0>>

(* the basis index of the configuration read from the other end of the chain *)
RECURSIVE RevFrom(_, _)
RevFrom(b, j) == IF j >= N THEN 0 ELSE Bit(b, j) * Pow2(j) + RevFrom(b, j + 1)
Rev(b) == RevFrom(b, 0)

(* C28: the built Hamiltonian is unchanged by reversing the chain,         *)
(* H[rev(b), rev(c)] = H[b, c] for all configurations b and c, and the     *)
(* site excited by default (floor(N/2)) is its own mirror image N-1-site   *)
(* exactly when N is odd.                                                  *)
ChainReversalSymmetric ==
    /\ pc = "built" => \A b, c \in Configs : H[Rev(b)][Rev(c)] = H[b][c]
    /\ (pc = "prepared" /\ kind = "local" /\ k = None) =>
           LET site == CHOOSE j \in Sites : psi0.amp[Pow2(N - 1 - j)][0] = COne
           IN  /\ site = N \div 2
               /\ (N - 1 - site = site) <=> (N % 2 = 1)
               /\ (psi0.amp[Rev(Pow2(N - 1 - site))][0] = COne) <=> (N % 2 = 1)

ChainReversalSeen ==
    /\ pc = "built"
    /\ N = 3
    /\ params.V_rr # 0
    /\ params.Omega_gr # 0
    /\ H[6][6] = H[3][3]
    /\ H[6][6] # H[5][5]
    /\ H[4][6] = H[1][3]
    /\ <<params.Omega_gr, 0>> = H[4][6]

(* the exchange of the first two entries and the rotation by one entry:   *)
(* every reordering of n entries is a composition of these two            *)
Reorderings(n) ==
    {[i \in 1..n |-> IF i = 1 /\ n >= 2 THEN 2 ELSE IF i = 2 THEN 1 ELSE i],
     [i \in 1..n |-> (i % n) + 1]}

(* the loop of evolve_state run on grid g from entry i on *)
RECURSIVE EvolveFrom(_, _, _)
EvolveFrom(sts, g, i) ==
    IF i > Len(g) THEN sts
    ELSE EvolveFrom(evolve_state_step(sts, psi0, H, g[i]), g, i + 1)

InputsPreserved ==
    [][/\ pc \in {"prepared", "evolve", "signal"} => (psi0' = psi0 /\ H' = H)
       /\ pc \in {"evolve", "signal"} => times' = times
       /\ (pc = "evolve" /\ pc' = "evolve") =>
              /\ Len(states') = Len(states) + 1
              /\ \A i \in 1..Len(states) : states'[i] = states[i]
       /\ pc = "signal" => states' = states
       /\ n_r_operators' # n_r_operators => (pc = "evolve" /\ pc' = "signal")]_vars

InputsPreservedSeen ==
    /\ pc = "done"
    /\ Len(states) = 2
    /\ states[1] = psi0
    /\ states[2].amp # psi0.amp
    /\ psi0 = (IF kind = "local" THEN initial_state_local_excitation(N, k)
               ELSE initial_state_collective_excitation(N))
    /\ H = build_hamiltonian_amplification(N, params)

DetectionShortGridSeen ==
    /\ pc = "decided"
    /\ run.verdict = "YES"
    /\ RatLess(run.max_time_factor, RatOne)
    /\ idx = Len(times) - 1

(* C22: inside scan_magnetic_field the entry stored for a field value is   *)
(* what a run of run_axion_detection_simulation on its own returns for     *)
(* that field (same temperature and N, max_time_factor = 8, n_times = 80), *)
(* whatever was run before it: the entries are exactly those of the field  *)
(* values passed so far, a repeated value gives the same entry again, and  *)
(* no entry depends on the order or on the other values.                   *)
ScanEntriesStandalone ==
    pc \in {"scan", "returned"} =>
        /\ DOMAIN run.results = {run.B_values[i] : i \in 1..run.position}
        /\ \A B \in DOMAIN run.results :
              run.results[B] = run_axion_detection_simulation(B, run.temperature, N, 8, 80)

ScanEntriesSeen ==
    /\ pc = "returned"
    /\ Len(run.B_values) = 2
    /\ run.B_values[1] > run.B_values[2]
    /\ DOMAIN run.results = {run.B_values[1], run.B_values[2]}
    /\ run.results[run.B_values[1]].params.V_rr # run.results[run.B_values[2]].params.V_rr
    /\ run.results[run.B_values[1]].signal.H # run.results[run.B_values[2]].signal.H
    /\ params = run.results[run.B_values[2]].params

====
